---- MODULE Spec2Model ----
(***************************************************************************)
(* Toggle dispatch and the recording state machine of whis-desktop         *)
(* (crates/whis-desktop/src/tray.rs, state.rs, commands.rs).               *)
(*                                                                         *)
(* Every trigger surface (tray click, tray menu, hotkey callback, portal   *)
(* activation, IPC listener) spawns toggle_recording on the multi-threaded *)
(* async runtime, so several toggle invocations run concurrently.  The     *)
(* invocations in flight are a bag of tasks; a task is its position (pc)   *)
(* in toggle_recording / start_recording_sync / stop_and_transcribe and    *)
(* the AudioRecorder its local scope owns.  One step is one critical       *)
(* section on one AppState mutex, or one call to a collaborator (audio,    *)
(* transcription, clipboard) whose outcome is an input.                    *)
(***************************************************************************)
EXTENDS Naturals, FiniteSets, Sequences, Bags

\* Bounds of the model: toggle invocations in flight at once, and
\* AudioRecorders created in one run.
MaxTasks == 2
MaxRecordings == 2

Handles == 1..MaxRecordings

\* RecordingState (state.rs:7-11; tray.rs names the third value Processing).
Idle == "Idle"
Recording == "Recording"
Processing == "Processing"
RecordingState == {Idle, Recording, Processing}

\* Option<..> values: NoKey and NoHandle model None.
NoKey == "none"
SettingsKeys == {NoKey, "sk-a"}
EnvKeys == {NoKey, "sk-env"}
NoHandle == 0

\* Messages that toggle_recording prints with eprintln (tray.rs:123, 131).
NoLog == "none"
ErrNoApiKey == "No API key configured"
ErrAudio == "audio error"
ErrNoActiveRecording == "No active recording"
ErrConfigNotLoaded == "Config not loaded"
ErrSave == "stop_and_save error"
ErrJoin == "join error"
ErrTranscribe == "transcription error"
ErrClipboard == "clipboard error"

\* ShortcutBackend (shortcuts.rs:9-16); Unset is the time before
\* setup_shortcuts has run.
TauriPlugin == "TauriPlugin"
PortalGlobalShortcuts == "PortalGlobalShortcuts"
CLIFallback == "CLIFallback"
Unset == "unset"

\* Values of XDG_SESSION_TYPE ("" is the variable unset, unwrap_or_default).
SessionTypes == {"wayland", "x11", "tty", ""}

\* Option<String> None for AppState.portal_shortcut, for the dconf lookup
\* and for a shortcut id missing from a portal response.
NoShortcut == "none"
\* The shortcut id whis registers with the portal (shortcuts.rs:188).
ToggleId == "toggle-recording"

VARIABLES
    state,        \* AppState.state
    recorder,     \* AppState.recorder: NoHandle or the stored handle
    config,       \* AppState.config (api_config): cached credential or NoKey
    settingsKey,  \* AppState.settings.openai_api_key
    envKey,       \* OPENAI_API_KEY of the process environment
    tray,         \* the state last pushed by update_tray
    tasks,        \* bag of toggle tasks in flight: [pc, hnd]
    nextId,       \* number of AudioRecorders created so far
    txCalls,      \* txCalls[h]: transcription calls made for live recording h
    clipWrites,   \* clipWrites[h]: clipboard writes made for live recording h
    log,          \* last error printed by toggle_recording
    ssPc,         \* position of the save_settings command
    backend,      \* capability chosen by setup_shortcuts, Unset before it
    detect,       \* the last detect_backend call: what it read, its result
    portalShortcut, \* AppState.portal_shortcut
    portal,       \* the portal setup task: [pc, raw, dconf, bind, event]
    ipc,          \* the IPC listener thread: [pc, bind, conn, buf, err]
    cli,          \* a `whis-desktop --toggle` process: [pc, connects, err]
    hotkeys,      \* the global-shortcut plugin: [plugin, bound]
    cmd,          \* the last command served and what it returned
    lk            \* the AppState mutexes: who holds each, where each thread is

\* The recording state machine, and the shortcut backends with the IPC
\* listener and sender.
cmdVars == <<hotkeys, cmd, lk>>
sysVars == <<backend, detect, portalShortcut, portal, ipc, cli, cmdVars>>
vars == <<state, recorder, config, settingsKey, envKey, tray, tasks, nextId,
          txCalls, clipWrites, log, ssPc, sysVars>>

shared == <<state, recorder, config, settingsKey, envKey, tray>>

\* A task at position p whose local scope owns handle h.
Task(p, h) == [pc |-> p, hnd |-> h]

\* Positions inside start_recording_sync and inside stop_and_transcribe once
\* it runs ("p_write" is the stop task spawned and not yet run).
StartPcs == {"s_config", "s_acquire", "s_store", "s_state", "s_tray"}
StopPcs == {"p_tray", "p_take", "p_config", "p_save", "p_tx_single",
            "p_tx_chunked", "p_clip", "p_reset", "p_tray_idle"}

\* Number of tasks in flight whose position is in S.
NumInBag(b, S) ==
    LET at == {r \in BagToSet(b) : r.pc \in S}
    IN  BagCardinality([r \in at |-> b[r]])
NumIn(S) == NumInBag(tasks, S)

\* No detect_backend call made yet.
NoDetect == [session |-> "", wayland |-> FALSE, probe |-> FALSE,
             result |-> Unset]

\* The portal bind has not been attempted; dconf has no line for
\* toggle-recording; the portal task is not spawned.
NoBind == [res |-> "pending", trig |-> NoShortcut]
NoEntry == [found |-> FALSE, raw |-> <<>>]
PortalOff == [pc |-> "off", raw |-> NoEntry, dconf |-> NoShortcut,
              bind |-> NoBind, event |-> NoShortcut]

\* The shortcut strings of settings.shortcut and of update_shortcut: the
\* default (settings.rs:16), the same chord in lower case, another chord,
\* and one with no key.
DefaultShortcut == "Ctrl+Shift+R"
ShortcutSpecs == {DefaultShortcut, "ctrl+shift+r", "Ctrl+Alt+W", "Ctrl+Shift+"}

\* Shortcut::from_str (shortcuts.rs:291, 374): the chord a string denotes,
\* modifier and key names read without regard to case; NoParse is Err.
NoParse == [mods |-> {}, key |-> ""]
ParseShortcut(spec) ==
    CASE spec \in {"Ctrl+Shift+R", "ctrl+shift+r"} ->
             [mods |-> {"Control", "Shift"}, key |-> "KeyR"]
      [] spec = "Ctrl+Alt+W" -> [mods |-> {"Control", "Alt"}, key |-> "KeyW"]
      [] OTHER -> NoParse

\* The global-shortcut plugin is not loaded and nothing is registered; no
\* command has been served.
NoHotkeys == [plugin |-> FALSE, bound |-> {}]
NoCmd == [op |-> "none", version |-> 0, kind |-> Unset, arg |-> NoShortcut,
          res |-> "none", restart |-> FALSE, opened |-> {}]

\* The mutexes of AppState (state.rs:13-23) taken by the operations below,
\* and the operations that run concurrently: the two transitions of a
\* toggle, three commands of the settings window and the portal setup
\* task.  Each operation is at instruction pc of its lock program, 0 when
\* it is not running.
Locks == {"state", "recorder", "api_config", "record_menu_item", "settings",
          "portal_shortcut"}
Free == "free"
Ops == {"toggle_start", "toggle_stop", "get_status", "get_settings",
        "save_settings", "portal_setup"}
LkInit == [held |-> [l \in Locks |-> Free], pc |-> [o \in Ops |-> 0]]

\* The listener thread is not started; no --toggle process is running.
IpcOff == [pc |-> "off", bind |-> "pending", conn |-> <<>>, buf |-> <<>>,
           err |-> NoLog]
CliOff == [pc |-> "off", connects |-> 0, err |-> NoLog]

\* AppState::new (state.rs:26-36) after Settings::load (lib.rs:14-15);
\* update_tray has pushed nothing yet, the tray is built with the idle icon
\* (tray.rs:45-50).
Init ==
    /\ state = Idle
    /\ recorder = NoHandle
    /\ config = NoKey
    /\ settingsKey \in SettingsKeys
    /\ envKey \in EnvKeys
    /\ tray = Idle
    /\ tasks = EmptyBag
    /\ nextId = 0
    /\ txCalls = [h \in Handles |-> 0]
    /\ clipWrites = [h \in Handles |-> 0]
    /\ log = NoLog
    /\ ssPc = "idle"
    /\ backend = Unset
    /\ detect = NoDetect
    /\ portalShortcut = NoShortcut
    /\ portal = PortalOff
    /\ ipc = IpcOff
    /\ cli = CliOff
    /\ hotkeys = NoHotkeys
    /\ cmd = NoCmd
    /\ lk = LkInit

\* Dropping AudioRecorder h ends its life; NoHandle drops nothing.
Drop(h) ==
    /\ txCalls' = [x \in Handles |-> IF x = h THEN 0 ELSE txCalls[x]]
    /\ clipWrites' = [x \in Handles |-> IF x = h THEN 0 ELSE clipWrites[x]]

\* Task r moves to position p, its local scope now owning h.
Goto(r, p, h) ==
    /\ tasks' = (tasks (-) SetToBag({r})) (+) SetToBag({Task(p, h)})
    /\ UNCHANGED log

\* Task r returns Err(msg) through `?`: toggle_recording prints it
\* (tray.rs:122-124, 130-132) and the local scope is dropped.
Fail(r, msg) ==
    /\ tasks' = tasks (-) SetToBag({r})
    /\ log' = msg
    /\ Drop(r.hnd)

\* The tasks in flight at position p.
At(p) == {r \in BagToSet(tasks) : r.pc = p}

\* A trigger surface spawns toggle_recording on the async runtime
\* (tray.rs:54-56, 71-73; shortcuts.rs:300-302, 345-347, 473-475).
SpawnToggle ==
    /\ BagCardinality(tasks) < MaxTasks
    /\ tasks' = tasks (+) SetToBag({Task("t_read", NoHandle)})
    /\ UNCHANGED <<shared, nextId, txCalls, clipWrites, log, ssPc>>
    /\ UNCHANGED sysVars

\* toggle_recording with the Processing arm missing, so Processing falls
\* into the arm that spawns the stop task.
ToggleReadNoGuard(r) ==
    /\ r.pc = "t_read"
    /\ CASE state = Idle -> Goto(r, "s_config", NoHandle)
         [] state = Recording -> Goto(r, "p_write", NoHandle)
         [] state = Processing -> Goto(r, "p_write", NoHandle)
    /\ UNCHANGED <<shared, nextId, txCalls, clipWrites, ssPc>>
    /\ UNCHANGED sysVars

\* toggle_recording (tray.rs:115-139): read the state under its lock, then
\* branch.  In Recording the stop task is spawned and toggle_recording
\* returns: "p_write" is the spawned task not yet run.  In Processing the
\* invocation ends.
ToggleRead(r) ==
    /\ r.pc = "t_read"
    /\ CASE state = Idle -> Goto(r, "s_config", NoHandle)
         [] state = Recording -> Goto(r, "p_write", NoHandle)
         [] state = Processing ->
                tasks' = tasks (-) SetToBag({r}) /\ UNCHANGED log
    /\ UNCHANGED <<shared, nextId, txCalls, clipWrites, ssPc>>
    /\ UNCHANGED sysVars

\* The credential start_recording_sync resolves (tray.rs:147-151).
ResolveKey == IF settingsKey # NoKey THEN settingsKey ELSE envKey

\* start_recording_sync, the config block (tray.rs:142-159).
StartConfig(r) ==
    /\ r.pc = "s_config"
    /\ IF config # NoKey
         THEN /\ Goto(r, "s_acquire", NoHandle)
              /\ UNCHANGED <<config, txCalls, clipWrites>>
         ELSE IF ResolveKey = NoKey
                THEN /\ Fail(r, ErrNoApiKey)
                     /\ UNCHANGED config
                ELSE /\ config' = ResolveKey
                     /\ Goto(r, "s_acquire", NoHandle)
                     /\ UNCHANGED <<txCalls, clipWrites>>
    /\ UNCHANGED <<state, recorder, settingsKey, envKey, tray, nextId, ssPc>>
    /\ UNCHANGED sysVars

\* start_recording_sync writing Recording before the capture is started,
\* so a failed start leaves Recording behind.
StartAcquireStateFirst(r, ok) ==
    /\ r.pc = "s_acquire"
    /\ IF ok
         THEN /\ nextId < MaxRecordings
              /\ nextId' = nextId + 1
              /\ Goto(r, "s_store", nextId + 1)
              /\ UNCHANGED <<txCalls, clipWrites, state>>
         ELSE /\ Fail(r, ErrAudio)
              /\ state' = Recording
              /\ UNCHANGED nextId
    /\ UNCHANGED <<recorder, config, settingsKey, envKey, tray, ssPc>>
    /\ UNCHANGED sysVars

\* start_recording_sync: AudioRecorder::new and start_recording
\* (tray.rs:162-163); ok is the outcome of the audio collaborator.
StartAcquire(r, ok) ==
    /\ r.pc = "s_acquire"
    /\ IF ok
         THEN /\ nextId < MaxRecordings
              /\ nextId' = nextId + 1
              /\ Goto(r, "s_store", nextId + 1)
              /\ UNCHANGED <<txCalls, clipWrites>>
         ELSE /\ Fail(r, ErrAudio)
              /\ UNCHANGED nextId
    /\ UNCHANGED <<shared, ssPc>>
    /\ UNCHANGED sysVars

\* start_recording_sync: store the handle (tray.rs:165); a handle already
\* in the slot is overwritten and dropped.
StartStore(r) ==
    /\ r.pc = "s_store"
    /\ recorder' = r.hnd
    /\ Drop(recorder)
    /\ Goto(r, "s_state", NoHandle)
    /\ UNCHANGED <<state, config, settingsKey, envKey, tray, nextId, ssPc>>
    /\ UNCHANGED sysVars

\* start_recording_sync: write Recording (tray.rs:166).
StartState(r) ==
    /\ r.pc = "s_state"
    /\ state' = Recording
    /\ Goto(r, "s_tray", NoHandle)
    /\ UNCHANGED <<recorder, config, settingsKey, envKey, tray, nextId,
                   txCalls, clipWrites, ssPc>>
    /\ UNCHANGED sysVars

\* start_recording_sync: update_tray(Recording) and return Ok
\* (tray.rs:169-172).
StartTray(r) ==
    /\ r.pc = "s_tray"
    /\ tray' = Recording
    /\ tasks' = tasks (-) SetToBag({r})
    /\ UNCHANGED <<state, recorder, config, settingsKey, envKey, nextId,
                   txCalls, clipWrites, log, ssPc>>
    /\ UNCHANGED sysVars

\* stop_and_transcribe going to the tray update and the take without
\* having written Processing.
StopWriteDeferred(r) ==
    /\ r.pc = "p_write"
    /\ Goto(r, "p_tray", NoHandle)
    /\ UNCHANGED <<shared, nextId, txCalls, clipWrites, ssPc>>
    /\ UNCHANGED sysVars

\* stop_and_transcribe: write Processing (tray.rs:178-181).
StopWrite(r) ==
    /\ r.pc = "p_write"
    /\ state' = Processing
    /\ Goto(r, "p_tray", NoHandle)
    /\ UNCHANGED <<recorder, config, settingsKey, envKey, tray, nextId,
                   txCalls, clipWrites, ssPc>>
    /\ UNCHANGED sysVars

\* stop_and_transcribe: update_tray(Processing) (tray.rs:182-183).
StopTray(r) ==
    /\ r.pc = "p_tray"
    /\ tray' = Processing
    /\ Goto(r, "p_take", NoHandle)
    /\ UNCHANGED <<state, recorder, config, settingsKey, envKey, nextId,
                   txCalls, clipWrites, ssPc>>
    /\ UNCHANGED sysVars

\* stop_and_transcribe: take the recorder out of the slot, `?` on None
\* (tray.rs:186-191).
StopTake(r) ==
    /\ r.pc = "p_take"
    /\ IF recorder = NoHandle
         THEN /\ Fail(r, ErrNoActiveRecording)
              /\ UNCHANGED recorder
         ELSE /\ recorder' = NoHandle
              /\ Goto(r, "p_config", recorder)
              /\ UNCHANGED <<txCalls, clipWrites>>
    /\ UNCHANGED <<state, config, settingsKey, envKey, tray, nextId, ssPc>>
    /\ UNCHANGED sysVars

\* stop_and_transcribe: clone the cached credential, `?` on None
\* (tray.rs:193-200).
StopConfig(r) ==
    /\ r.pc = "p_config"
    /\ IF config = NoKey
         THEN Fail(r, ErrConfigNotLoaded)
         ELSE /\ Goto(r, "p_save", r.hnd)
              /\ UNCHANGED <<txCalls, clipWrites>>
    /\ UNCHANGED <<shared, nextId, ssPc>>
    /\ UNCHANGED sysVars

\* stop_and_transcribe: recorder.stop_and_save (tray.rs:205); res is what
\* the audio collaborator returns.
SaveResults == {"err", "single", "chunked"}
StopSave(r, res) ==
    /\ r.pc = "p_save"
    /\ CASE res = "err" -> Fail(r, ErrSave)
         [] res = "single" ->
                Goto(r, "p_tx_single", r.hnd) /\ UNCHANGED <<txCalls, clipWrites>>
         [] res = "chunked" ->
                Goto(r, "p_tx_chunked", r.hnd) /\ UNCHANGED <<txCalls, clipWrites>>
    /\ UNCHANGED <<shared, nextId, ssPc>>
    /\ UNCHANGED sysVars

\* stop_and_transcribe: AudioResult::Single, transcribe_audio inside
\* spawn_blocking, `?` on the join error and on the call's error
\* (tray.rs:211-219).
SingleResults == {"ok", "join_err", "err"}
StopTranscribeSingle(r, res) ==
    /\ r.pc = "p_tx_single"
    /\ CASE res = "ok" ->
                /\ txCalls' = [txCalls EXCEPT ![r.hnd] = @ + 1]
                /\ Goto(r, "p_clip", r.hnd)
                /\ UNCHANGED clipWrites
         [] res = "join_err" -> Fail(r, ErrJoin)
         [] res = "err" -> Fail(r, ErrTranscribe)
    /\ UNCHANGED <<shared, nextId, ssPc>>
    /\ UNCHANGED sysVars

\* stop_and_transcribe: AudioResult::Chunked, parallel_transcribe
\* (tray.rs:220-225).
StopTranscribeChunked(r, ok) ==
    /\ r.pc = "p_tx_chunked"
    /\ IF ok
         THEN /\ txCalls' = [txCalls EXCEPT ![r.hnd] = @ + 1]
              /\ Goto(r, "p_clip", r.hnd)
              /\ UNCHANGED clipWrites
         ELSE Fail(r, ErrTranscribe)
    /\ UNCHANGED <<shared, nextId, ssPc>>
    /\ UNCHANGED sysVars

\* stop_and_transcribe: copy_to_clipboard (tray.rs:229).
StopClipboard(r, ok) ==
    /\ r.pc = "p_clip"
    /\ IF ok
         THEN /\ clipWrites' = [clipWrites EXCEPT ![r.hnd] = @ + 1]
              /\ Goto(r, "p_reset", r.hnd)
              /\ UNCHANGED txCalls
         ELSE Fail(r, ErrClipboard)
    /\ UNCHANGED <<shared, nextId, ssPc>>
    /\ UNCHANGED sysVars

\* stop_and_transcribe without the final write of Idle.
StopResetSkipped(r) ==
    /\ r.pc = "p_reset"
    /\ Goto(r, "p_tray_idle", r.hnd)
    /\ UNCHANGED <<shared, nextId, txCalls, clipWrites, ssPc>>
    /\ UNCHANGED sysVars

\* stop_and_transcribe: write Idle (tray.rs:232-234).
StopReset(r) ==
    /\ r.pc = "p_reset"
    /\ state' = Idle
    /\ Goto(r, "p_tray_idle", r.hnd)
    /\ UNCHANGED <<recorder, config, settingsKey, envKey, tray, nextId,
                   txCalls, clipWrites, ssPc>>
    /\ UNCHANGED sysVars

\* stop_and_transcribe: update_tray(Idle), return Ok; the recorder local
\* is dropped (tray.rs:235-240).
StopTrayIdle(r) ==
    /\ r.pc = "p_tray_idle"
    /\ tray' = Idle
    /\ tasks' = tasks (-) SetToBag({r})
    /\ Drop(r.hnd)
    /\ UNCHANGED <<state, recorder, config, settingsKey, envKey, nextId,
                   log, ssPc>>
    /\ UNCHANGED sysVars

\* save_settings (commands.rs:98-111): compare with the current settings,
\* store the new ones, save to disk (`?` on failure, after the store).
SaveSettingsWrite(new, ok) ==
    /\ ssPc = "idle"
    /\ settingsKey' = new
    /\ ssPc' = IF ok /\ settingsKey # new THEN "clear" ELSE "idle"
    /\ UNCHANGED <<state, recorder, config, envKey, tray, tasks, nextId,
                   txCalls, clipWrites, log>>
    /\ UNCHANGED sysVars

\* save_settings (commands.rs:113-116): clear the cached credential when the
\* key changed.
SaveSettingsClear ==
    /\ ssPc = "clear"
    /\ config' = NoKey
    /\ ssPc' = "idle"
    /\ UNCHANGED <<state, recorder, settingsKey, envKey, tray, tasks, nextId,
                   txCalls, clipWrites, log>>
    /\ UNCHANGED sysVars

Next ==
    \/ SpawnToggle
    \/ \E r \in At("t_read") : ToggleRead(r)
    \/ \E r \in At("s_config") : StartConfig(r)
    \/ \E r \in At("s_acquire") : \E ok \in BOOLEAN : StartAcquire(r, ok)
    \/ \E r \in At("s_store") : StartStore(r)
    \/ \E r \in At("s_state") : StartState(r)
    \/ \E r \in At("s_tray") : StartTray(r)
    \/ \E r \in At("p_write") : StopWrite(r)
    \/ \E r \in At("p_tray") : StopTray(r)
    \/ \E r \in At("p_take") : StopTake(r)
    \/ \E r \in At("p_config") : StopConfig(r)
    \/ \E r \in At("p_save") : \E res \in SaveResults : StopSave(r, res)
    \/ \E r \in At("p_tx_single") :
          \E res \in SingleResults : StopTranscribeSingle(r, res)
    \/ \E r \in At("p_tx_chunked") :
          \E ok \in BOOLEAN : StopTranscribeChunked(r, ok)
    \/ \E r \in At("p_clip") : \E ok \in BOOLEAN : StopClipboard(r, ok)
    \/ \E r \in At("p_reset") : StopReset(r)
    \/ \E r \in At("p_tray_idle") : StopTrayIdle(r)
    \/ \E new \in SettingsKeys : \E ok \in BOOLEAN : SaveSettingsWrite(new, ok)
    \/ SaveSettingsClear

Spec == Init /\ [][Next]_vars

(***************************************************************************)
(* Two toggles delivered one after the other with every collaborator       *)
(* succeeding: a trigger is delivered only when no toggle is in flight,    *)
(* a credential is resolvable, audio capture starts, stop_and_save,        *)
(* transcription and the clipboard write return Ok.  The async runtime     *)
(* runs every spawned task, hence the weak fairness on the task steps.     *)
(***************************************************************************)
InitSeq == Init /\ ResolveKey # NoKey

SpawnToggleSeq ==
    /\ tasks = EmptyBag
    /\ state = Idle => nextId < MaxRecordings
    /\ SpawnToggle

TaskStepSeq ==
    \/ \E r \in At("t_read") : ToggleRead(r)
    \/ \E r \in At("s_config") : StartConfig(r)
    \/ \E r \in At("s_acquire") : StartAcquire(r, TRUE)
    \/ \E r \in At("s_store") : StartStore(r)
    \/ \E r \in At("s_state") : StartState(r)
    \/ \E r \in At("s_tray") : StartTray(r)
    \/ \E r \in At("p_write") : StopWrite(r)
    \/ \E r \in At("p_tray") : StopTray(r)
    \/ \E r \in At("p_take") : StopTake(r)
    \/ \E r \in At("p_config") : StopConfig(r)
    \/ \E r \in At("p_save") : StopSave(r, "single")
    \/ \E r \in At("p_save") : StopSave(r, "chunked")
    \/ \E r \in At("p_tx_single") : StopTranscribeSingle(r, "ok")
    \/ \E r \in At("p_tx_chunked") : StopTranscribeChunked(r, TRUE)
    \/ \E r \in At("p_clip") : StopClipboard(r, TRUE)
    \/ \E r \in At("p_reset") : StopReset(r)
    \/ \E r \in At("p_tray_idle") : StopTrayIdle(r)

NextSeq ==
    \/ SpawnToggleSeq
    \/ TaskStepSeq

SpecSeq == InitSeq /\ [][NextSeq]_vars /\ WF_vars(TaskStepSeq)

(***************************************************************************)
(* The toggles alone: any number of them in flight, every collaborator     *)
(* free to fail, a credential resolvable and no save_settings command      *)
(* running beside them.                                                    *)
(***************************************************************************)
TaskStep ==
    \/ \E r \in At("t_read") : ToggleRead(r)
    \/ \E r \in At("s_config") : StartConfig(r)
    \/ \E r \in At("s_acquire") : \E ok \in BOOLEAN : StartAcquire(r, ok)
    \/ \E r \in At("s_store") : StartStore(r)
    \/ \E r \in At("s_state") : StartState(r)
    \/ \E r \in At("s_tray") : StartTray(r)
    \/ \E r \in At("p_write") : StopWrite(r)
    \/ \E r \in At("p_tray") : StopTray(r)
    \/ \E r \in At("p_take") : StopTake(r)
    \/ \E r \in At("p_config") : StopConfig(r)
    \/ \E r \in At("p_save") : \E res \in SaveResults : StopSave(r, res)
    \/ \E r \in At("p_tx_single") :
          \E res \in SingleResults : StopTranscribeSingle(r, res)
    \/ \E r \in At("p_tx_chunked") :
          \E ok \in BOOLEAN : StopTranscribeChunked(r, ok)
    \/ \E r \in At("p_clip") : \E ok \in BOOLEAN : StopClipboard(r, ok)
    \/ \E r \in At("p_reset") : StopReset(r)
    \/ \E r \in At("p_tray_idle") : StopTrayIdle(r)

NextToggle ==
    \/ SpawnToggle
    \/ TaskStep

SpecToggle == InitSeq /\ [][NextToggle]_vars

(***************************************************************************)
(* The recording cycle a stop task belongs to.  Between the read of        *)
(* Recording in toggle_recording and the take in stop_and_transcribe the   *)
(* local scope of the task owns no handle; here that field carries the     *)
(* handle that was in the recorder slot when the toggle read Recording,    *)
(* i.e. the handle stored by the start of the cycle the toggle observed.   *)
(* Collaborators succeed; toggles during a recording are delivered         *)
(* freely.                                                                 *)
(***************************************************************************)

\* toggle_recording (tray.rs:115-139), the stop task remembering the handle
\* of the cycle it was spawned in.
ToggleReadSeen(r) ==
    /\ r.pc = "t_read"
    /\ CASE state = Idle -> Goto(r, "s_config", NoHandle)
         [] state = Recording -> Goto(r, "p_write", recorder)
         [] state = Processing ->
                tasks' = tasks (-) SetToBag({r}) /\ UNCHANGED log
    /\ UNCHANGED <<shared, nextId, txCalls, clipWrites, ssPc>>
    /\ UNCHANGED sysVars

\* stop_and_transcribe: write Processing (tray.rs:178-181), whatever the
\* state is by now.
StopWriteSeen(r) ==
    /\ r.pc = "p_write"
    /\ state' = Processing
    /\ Goto(r, "p_tray", r.hnd)
    /\ UNCHANGED <<recorder, config, settingsKey, envKey, tray, nextId,
                   txCalls, clipWrites, ssPc>>
    /\ UNCHANGED sysVars

\* stop_and_transcribe: update_tray(Processing) (tray.rs:182-183).
StopTraySeen(r) ==
    /\ r.pc = "p_tray"
    /\ tray' = Processing
    /\ Goto(r, "p_take", r.hnd)
    /\ UNCHANGED <<state, recorder, config, settingsKey, envKey, nextId,
                   txCalls, clipWrites, ssPc>>
    /\ UNCHANGED sysVars

\* stop_and_transcribe: take whatever handle is in the slot, `?` on None
\* (tray.rs:186-191).
StopTakeSeen(r) ==
    /\ r.pc = "p_take"
    /\ IF recorder = NoHandle
         THEN /\ tasks' = tasks (-) SetToBag({r})
              /\ log' = ErrNoActiveRecording
              /\ UNCHANGED <<recorder, txCalls, clipWrites>>
         ELSE /\ recorder' = NoHandle
              /\ Goto(r, "p_config", recorder)
              /\ UNCHANGED <<txCalls, clipWrites>>
    /\ UNCHANGED <<state, config, settingsKey, envKey, tray, nextId, ssPc>>
    /\ UNCHANGED sysVars

\* A toggle that would start a recording is delivered when no toggle is
\* unread and no start is in flight; stop tasks may still be pending.
SpawnToggleStale ==
    /\ state = Idle => /\ NumIn(StartPcs \cup {"t_read"}) = 0
                       /\ nextId < MaxRecordings
    /\ SpawnToggle

TaskStepStale ==
    \/ \E r \in At("t_read") : ToggleReadSeen(r)
    \/ \E r \in At("s_config") : StartConfig(r)
    \/ \E r \in At("s_acquire") : StartAcquire(r, TRUE)
    \/ \E r \in At("s_store") : StartStore(r)
    \/ \E r \in At("s_state") : StartState(r)
    \/ \E r \in At("s_tray") : StartTray(r)
    \/ \E r \in At("p_write") : StopWriteSeen(r)
    \/ \E r \in At("p_tray") : StopTraySeen(r)
    \/ \E r \in At("p_take") : StopTakeSeen(r)
    \/ \E r \in At("p_config") : StopConfig(r)
    \/ \E r \in At("p_save") : StopSave(r, "single")
    \/ \E r \in At("p_save") : StopSave(r, "chunked")
    \/ \E r \in At("p_tx_single") : StopTranscribeSingle(r, "ok")
    \/ \E r \in At("p_tx_chunked") : StopTranscribeChunked(r, TRUE)
    \/ \E r \in At("p_clip") : StopClipboard(r, TRUE)
    \/ \E r \in At("p_reset") : StopReset(r)
    \/ \E r \in At("p_tray_idle") : StopTrayIdle(r)

NextStale ==
    \/ SpawnToggleStale
    \/ TaskStepStale

SpecStale == InitSeq /\ [][NextStale]_vars

(***************************************************************************)
(* Shortcut backends (crates/whis-desktop/src/shortcuts.rs): backend       *)
(* selection at startup, the portal setup task and the configure_shortcut  *)
(* command.  What the environment, dconf and the portal service answer is  *)
(* an input of the step that asks.                                         *)
(***************************************************************************)

\* detect_backend with `&&` in place of `||` in the Wayland test.
DetectBackendBothSignals(session, wayland, probe) ==
    IF session = "wayland" /\ wayland
      THEN IF probe THEN PortalGlobalShortcuts ELSE CLIFallback
      ELSE TauriPlugin

\* detect_backend (shortcuts.rs:72-96): session is XDG_SESSION_TYPE,
\* wayland is WAYLAND_DISPLAY being set, probe is check_portal_available.
DetectBackend(session, wayland, probe) ==
    IF session = "wayland" \/ wayland
      THEN IF probe THEN PortalGlobalShortcuts ELSE CLIFallback
      ELSE TauriPlugin

\* What setup_tauri_shortcut meets after the parse (shortcuts.rs:294-310):
\* the plugin fails to load, the registration fails, or both succeed.
TauriResults == {"plugin_err", "register_err", "ok"}

\* setup_tauri_shortcut (shortcuts.rs:287-313): parse, load the plugin,
\* register; `?` on each.
SetupTauriShortcut(spec, res) ==
    IF ParseShortcut(spec) = NoParse \/ res = "plugin_err"
      THEN [plugin |-> FALSE, bound |-> {}]
      ELSE IF res = "register_err"
             THEN [plugin |-> TRUE, bound |-> {}]
             ELSE [plugin |-> TRUE, bound |-> {ParseShortcut(spec)}]

\* setup_shortcuts (shortcuts.rs:316-362): detect the backend once; under
\* TauriPlugin set up the hotkey for settings.shortcut, a failure being
\* only logged; under PortalGlobalShortcuts spawn the portal setup task.
SetupShortcuts(session, wayland, probe) ==
    /\ backend = Unset
    /\ detect' = [session |-> session, wayland |-> wayland, probe |-> probe,
                  result |-> DetectBackend(session, wayland, probe)]
    /\ backend' = detect'.result
    /\ portal' = IF backend' = PortalGlobalShortcuts
                   THEN [portal EXCEPT !.pc = "dconf"]
                   ELSE portal
    /\ IF backend' = TauriPlugin
         THEN \E spec \in ShortcutSpecs : \E res \in TauriResults :
                  hotkeys' = SetupTauriShortcut(spec, res)
         ELSE UNCHANGED hotkeys
    /\ UNCHANGED <<shared, tasks, nextId, txCalls, clipWrites, log, ssPc>>
    /\ UNCHANGED <<portalShortcut, ipc, cli, cmd, lk>>

\* Strings of the dconf dump are sequences of characters.  The modifier
\* tokens of the GVariant format and the names they are displayed by
\* (shortcuts.rs:150-154).
GMods == {"Control", "Alt", "Shift", "Super"}
Token(m) ==
    CASE m = "Control" -> <<"<", "C", "o", "n", "t", "r", "o", "l", ">">>
      [] m = "Alt" -> <<"<", "A", "l", "t", ">">>
      [] m = "Shift" -> <<"<", "S", "h", "i", "f", "t", ">">>
      [] m = "Super" -> <<"<", "S", "u", "p", "e", "r", ">">>
Replacement(m) ==
    CASE m = "Control" -> <<"C", "t", "r", "l", "+">>
      [] m = "Alt" -> <<"A", "l", "t", "+">>
      [] m = "Shift" -> <<"S", "h", "i", "f", "t", "+">>
      [] m = "Super" -> <<"S", "u", "p", "e", "r", "+">>

\* char::to_uppercase on the letters that occur, every other character
\* being its own upper case.
LowerLetters == <<"a", "c", "e", "m", "n", "p", "r", "s", "t", "u">>
UpperLetters == <<"A", "C", "E", "M", "N", "P", "R", "S", "T", "U">>
UpperChar(c) ==
    IF \E i \in 1..Len(LowerLetters) : LowerLetters[i] = c
      THEN UpperLetters[CHOOSE i \in 1..Len(LowerLetters) :
                            LowerLetters[i] = c]
      ELSE c

\* str::to_uppercase.
ToUppercase(s) == [i \in 1..Len(s) |-> UpperChar(s[i])]

\* s starts with pat.
StartsWith(s, pat) ==
    /\ Len(pat) <= Len(s)
    /\ \A i \in 1..Len(pat) : s[i] = pat[i]

\* str::replace: every non-overlapping match of pat, from the left.
RECURSIVE Replace(_, _, _)
Replace(s, pat, rep) ==
    IF s = <<>>
      THEN <<>>
      ELSE IF StartsWith(s, pat)
             THEN rep \o Replace(SubSeq(s, Len(pat) + 1, Len(s)), pat, rep)
             ELSE <<Head(s)>> \o Replace(Tail(s), pat, rep)

\* str::rfind of a character: the last position it is at, 0 for None.
RFind(s, c) ==
    IF \E i \in 1..Len(s) : s[i] = c
      THEN CHOOSE i \in 1..Len(s) :
               s[i] = c /\ \A k \in (i + 1)..Len(s) : s[k] # c
      ELSE 0

\* The four replacements of convert_gvariant_shortcut, in its order.
ReplaceTokens(raw) ==
    Replace(Replace(Replace(Replace(raw,
        Token("Control"), Replacement("Control")),
        Token("Alt"), Replacement("Alt")),
        Token("Shift"), Replacement("Shift")),
        Token("Super"), Replacement("Super"))

\* convert_gvariant_shortcut upper-casing the whole converted string.
ConvertGvariantShortcutAllUpper(raw) == ToUppercase(ReplaceTokens(raw))

\* convert_gvariant_shortcut without the <Shift> replacement: the token
\* is dropped.
ConvertGvariantShortcutNoShift(raw) ==
    LET converted ==
            Replace(Replace(Replace(Replace(raw,
                Token("Control"), Replacement("Control")),
                Token("Alt"), Replacement("Alt")),
                Token("Shift"), <<>>),
                Token("Super"), Replacement("Super"))
        last_plus == RFind(converted, "+")
    IN  IF last_plus # 0
          THEN SubSeq(converted, 1, last_plus)
                 \o ToUppercase(SubSeq(converted, last_plus + 1,
                                       Len(converted)))
          ELSE ToUppercase(converted)

\* convert_gvariant_shortcut (shortcuts.rs:149-163): replace the four
\* tokens, then upper-case what follows the last '+', or the whole string
\* if there is none.
ConvertGvariantShortcut(raw) ==
    LET converted == ReplaceTokens(raw)
        last_plus == RFind(converted, "+")
    IN  IF last_plus # 0
          THEN SubSeq(converted, 1, last_plus)
                 \o ToUppercase(SubSeq(converted, last_plus + 1,
                                       Len(converted)))
          ELSE ToUppercase(converted)

\* The String a sequence of characters is.
RECURSIVE Join(_)
Join(s) == IF s = <<>> THEN "" ELSE Head(s) \o Join(Tail(s))

\* read_portal_shortcut_from_dconf (shortcuts.rs:121-145): None without a
\* line for toggle-recording, otherwise the converted value of the line.
ReadPortalShortcutFromDconf(entry) ==
    IF entry.found
      THEN Join(ConvertGvariantShortcut(entry.raw))
      ELSE NoShortcut

\* The GVariant string of a chord: the tokens of its modifiers, then its
\* key.
RECURSIVE Native(_, _)
Native(mods, key) ==
    IF mods = <<>> THEN key ELSE Token(Head(mods)) \o Native(Tail(mods), key)

\* What the dconf dump holds for toggle-recording: no line, or the value
\* of the example of shortcuts.rs:131.
Entry(raw) == [found |-> TRUE, raw |-> raw]
DconfEntries == {NoEntry, Entry(Native(<<"Control", "Alt">>, <<"m">>))}

\* setup_portal_shortcuts: publish the dconf binding if one is found
\* (shortcuts.rs:178-182).
PortalDconf(entry) ==
    /\ portal.pc = "dconf"
    /\ LET existing == ReadPortalShortcutFromDconf(entry)
       IN  /\ portalShortcut' = IF existing # NoShortcut
                                  THEN existing
                                  ELSE portalShortcut
           /\ portal' = [portal EXCEPT !.pc = "session", !.raw = entry,
                                       !.dconf = existing]
    /\ UNCHANGED <<shared, tasks, nextId, txCalls, clipWrites, log, ssPc>>
    /\ UNCHANGED <<backend, detect, ipc, cli>>
    /\ UNCHANGED cmdVars

\* Neither the shortcut backends nor the commands read the credential:
\* one configuration of it.
InitCmd == Init /\ settingsKey # NoKey /\ envKey = NoKey

\* The chords dconf can hold: the modifiers in any order, none twice, and
\* a key name.
ModSeqs ==
    {q \in UNION {[1..n -> GMods] : n \in 0..Cardinality(GMods)} :
        \A i \in DOMAIN q : \A k \in DOMAIN q : q[i] = q[k] => i = k}
KeyNames == {<<"m">>, <<"M">>, <<"F", "1">>, <<"s", "p", "a", "c", "e">>,
             <<"R", "e", "t", "u", "r", "n">>}
ChordEntries == {Entry(Native(mods, key)) : mods \in ModSeqs, key \in KeyNames}

\* The dconf lookup of the portal setup task on a Wayland session with the
\* portal present, over every chord.
NextConvert ==
    \/ SetupShortcuts("wayland", TRUE, TRUE)
    \/ \E entry \in ChordEntries \cup {NoEntry} : PortalDconf(entry)

SpecConvert == InitCmd /\ [][NextConvert]_vars

\* setup_portal_shortcuts: GlobalShortcuts::new and create_session, `?` on
\* either (shortcuts.rs:184-185); an Err ends the task (shortcuts.rs:352-355).
PortalSession(ok) ==
    /\ portal.pc = "session"
    /\ portal' = [portal EXCEPT !.pc = IF ok THEN "bind" ELSE "ended"]
    /\ UNCHANGED <<shared, tasks, nextId, txCalls, clipWrites, log, ssPc>>
    /\ UNCHANGED <<backend, detect, portalShortcut, ipc, cli>>
    /\ UNCHANGED cmdVars

\* What bind_shortcuts and its response give (shortcuts.rs:192-220): the
\* call fails, the request is rejected, or the response lists the trigger
\* description of toggle-recording (missing, empty or a binding).
BindResults ==
    {[res |-> "call_err", trig |-> NoShortcut],
     [res |-> "response_err", trig |-> NoShortcut]}
      \cup {[res |-> "ok", trig |-> t] : t \in {NoShortcut, "", "Ctrl+Shift+R"}}

\* setup_portal_shortcuts with a failed bind leaving through `?`.
PortalBindFatal(b) ==
    /\ portal.pc = "bind"
    /\ portalShortcut' = IF b.res = "ok" /\ b.trig # NoShortcut /\ b.trig # ""
                           THEN b.trig
                           ELSE portalShortcut
    /\ portal' = [portal EXCEPT !.pc = IF b.res = "ok" THEN "subscribe"
                                                       ELSE "ended",
                                !.bind = b]
    /\ UNCHANGED <<shared, tasks, nextId, txCalls, clipWrites, log, ssPc>>
    /\ UNCHANGED <<backend, detect, ipc, cli>>
    /\ UNCHANGED cmdVars

\* setup_portal_shortcuts without the is_empty test on the trigger.
PortalBindAnyTrigger(b) ==
    /\ portal.pc = "bind"
    /\ portalShortcut' = IF b.res = "ok" /\ b.trig # NoShortcut
                           THEN b.trig
                           ELSE portalShortcut
    /\ portal' = [portal EXCEPT !.pc = "subscribe", !.bind = b]
    /\ UNCHANGED <<shared, tasks, nextId, txCalls, clipWrites, log, ssPc>>
    /\ UNCHANGED <<backend, detect, ipc, cli>>
    /\ UNCHANGED cmdVars

\* setup_portal_shortcuts: the bind (shortcuts.rs:192-220).  Only a
\* response with a non-empty trigger for toggle-recording writes
\* portal_shortcut; both Err arms log and fall through.
PortalBind(b) ==
    /\ portal.pc = "bind"
    /\ portalShortcut' = IF b.res = "ok" /\ b.trig # NoShortcut /\ b.trig # ""
                           THEN b.trig
                           ELSE portalShortcut
    /\ portal' = [portal EXCEPT !.pc = "subscribe", !.bind = b]
    /\ UNCHANGED <<shared, tasks, nextId, txCalls, clipWrites, log, ssPc>>
    /\ UNCHANGED <<backend, detect, ipc, cli>>
    /\ UNCHANGED cmdVars

\* setup_portal_shortcuts: receive_activated, `?` (shortcuts.rs:223).
PortalSubscribe(ok) ==
    /\ portal.pc = "subscribe"
    /\ portal' = [portal EXCEPT !.pc = IF ok THEN "listening" ELSE "ended"]
    /\ UNCHANGED <<shared, tasks, nextId, txCalls, clipWrites, log, ssPc>>
    /\ UNCHANGED <<backend, detect, portalShortcut, ipc, cli>>
    /\ UNCHANGED cmdVars

\* A toggle can be delivered: none is in flight and a start would find an
\* AudioRecorder within the bound.
CanDeliver ==
    /\ tasks = EmptyBag
    /\ state = Idle => nextId < MaxRecordings

\* What activated.next() yields: an activation of some shortcut id, or
\* the end of the stream.
StreamItems == {ToggleId, "other-shortcut", "end"}

\* setup_portal_shortcuts: activated.next().await (shortcuts.rs:224); the
\* end of the stream returns Ok (shortcuts.rs:231).
PortalNext(item) ==
    /\ portal.pc = "listening"
    /\ item = ToggleId => CanDeliver
    /\ portal' = IF item = "end"
                   THEN [portal EXCEPT !.pc = "ended"]
                   ELSE [portal EXCEPT !.pc = "event", !.event = item]
    /\ UNCHANGED <<shared, tasks, nextId, txCalls, clipWrites, log, ssPc>>
    /\ UNCHANGED <<backend, detect, portalShortcut, ipc, cli>>
    /\ UNCHANGED cmdVars

\* setup_portal_shortcuts calling on_toggle for every activation, whatever
\* its shortcut id.
PortalEventAnyId ==
    /\ portal.pc = "event"
    /\ tasks' = tasks (+) SetToBag({Task("t_read", NoHandle)})
    /\ portal' = [portal EXCEPT !.pc = "listening", !.event = NoShortcut]
    /\ UNCHANGED <<shared, nextId, txCalls, clipWrites, log, ssPc>>
    /\ UNCHANGED <<backend, detect, portalShortcut, ipc, cli>>
    /\ UNCHANGED cmdVars

\* setup_portal_shortcuts: the loop body (shortcuts.rs:225-228); on_toggle
\* spawns toggle_recording (shortcuts.rs:343-348).
PortalEvent ==
    /\ portal.pc = "event"
    /\ tasks' = IF portal.event = ToggleId
                  THEN tasks (+) SetToBag({Task("t_read", NoHandle)})
                  ELSE tasks
    /\ portal' = [portal EXCEPT !.pc = "listening", !.event = NoShortcut]
    /\ UNCHANGED <<shared, nextId, txCalls, clipWrites, log, ssPc>>
    /\ UNCHANGED <<backend, detect, portalShortcut, ipc, cli>>
    /\ UNCHANGED cmdVars

\* What get_portal_version returns (shortcuts.rs:34-52), and what
\* open_configure_shortcuts gets from the portal after the version test:
\* the call that fails (opening the session, the bind, the configuration
\* dialog, the listing), or the listed trigger of toggle-recording
\* (missing, empty or a binding).
PortalVersions == 0..2
ConfigureErrs == {"session_err", "bind_err", "dialog_err", "list_err"}
ConfigureResults == ConfigureErrs \cup {NoShortcut, "", "Ctrl+Alt+K"}
ErrUnsupported == "Shortcut configuration requires GlobalShortcuts portal v2+"

\* A command record: what was asked and what came back.
Cmd(op, version, kind, arg, res, restart, opened) ==
    [op |-> op, version |-> version, kind |-> kind, arg |-> arg, res |-> res,
     restart |-> restart, opened |-> opened]

\* What open_configure_shortcuts has opened when the portal answers res.
Opened(res) ==
    CASE res = "session_err" -> {}
      [] res \in {"bind_err", "dialog_err"} -> {"session"}
      [] OTHER -> {"session", "dialog"}

\* open_configure_shortcuts going on to the portal whatever the version.
ConfigureShortcutAnyVersion(version, res) ==
    /\ backend # Unset
    /\ portalShortcut' = IF res \notin ConfigureErrs /\ res # NoShortcut
                           THEN res
                           ELSE portalShortcut
    /\ cmd' = Cmd("configure", version, Unset, NoShortcut,
                  IF res \in ConfigureErrs THEN res ELSE "ok",
                  FALSE, Opened(res))
    /\ UNCHANGED <<shared, tasks, nextId, txCalls, clipWrites, log, ssPc>>
    /\ UNCHANGED <<backend, detect, portal, ipc, cli, hotkeys, lk>>

\* configure_shortcut (commands.rs:61-66, shortcuts.rs:237-284), a command
\* of the settings window: refuse under portal version 2, `?` on every
\* portal call, then store the listed trigger.
ConfigureShortcut(version, res) ==
    /\ backend # Unset
    /\ portalShortcut' = IF version >= 2 /\ res \notin ConfigureErrs
                                         /\ res # NoShortcut
                           THEN res
                           ELSE portalShortcut
    /\ cmd' = IF version < 2
                THEN Cmd("configure", version, Unset, NoShortcut,
                         ErrUnsupported, FALSE, {})
                ELSE Cmd("configure", version, Unset, NoShortcut,
                         IF res \in ConfigureErrs THEN res ELSE "ok",
                         FALSE, Opened(res))
    /\ UNCHANGED <<shared, tasks, nextId, txCalls, clipWrites, log, ssPc>>
    /\ UNCHANGED <<backend, detect, portal, ipc, cli, hotkeys, lk>>

\* get_backend_info reporting the portal version whatever the backend.
GetBackendInfoAnyVersion(probe, version) ==
    /\ backend # Unset
    /\ detect' = [detect EXCEPT
                    !.probe = probe,
                    !.result = DetectBackend(detect.session, detect.wayland,
                                             probe)]
    /\ cmd' = Cmd("info", version, detect'.result, NoShortcut, "ok",
                  detect'.result # TauriPlugin, {})
    /\ UNCHANGED <<shared, tasks, nextId, txCalls, clipWrites, log, ssPc>>
    /\ UNCHANGED <<backend, portalShortcut, portal, ipc, cli, hotkeys, lk>>

\* get_backend_info (shortcuts.rs:55-69, commands.rs:56-59): detect the
\* backend again (the environment of the process is the one read at
\* startup, the probe is made anew), query the portal version only under
\* the portal backend.
GetBackendInfo(probe, version) ==
    /\ backend # Unset
    /\ detect' = [detect EXCEPT
                    !.probe = probe,
                    !.result = DetectBackend(detect.session, detect.wayland,
                                             probe)]
    /\ cmd' = Cmd("info",
                  IF detect'.result = PortalGlobalShortcuts THEN version ELSE 0,
                  detect'.result, NoShortcut, "ok",
                  detect'.result # TauriPlugin, {})
    /\ UNCHANGED <<shared, tasks, nextId, txCalls, clipWrites, log, ssPc>>
    /\ UNCHANGED <<backend, portalShortcut, portal, ipc, cli, hotkeys, lk>>

\* The errors of update_shortcut; without the plugin loaded
\* app.global_shortcut() panics and the command returns nothing.
ErrInvalidShortcut == "Invalid shortcut"
ErrUnregister == "unregister_all error"
ErrRegister == "register error"
Panicked == "panic"

\* What the TauriPlugin arm of update_shortcut returns and leaves
\* registered, without the unregister_all.
TauriUpdateKeepsOld(new, unregOk, regOk) ==
    IF ~hotkeys.plugin
      THEN [res |-> Panicked, bound |-> hotkeys.bound]
      ELSE IF ParseShortcut(new) = NoParse
             THEN [res |-> ErrInvalidShortcut, bound |-> hotkeys.bound]
             ELSE IF ~regOk
                    THEN [res |-> ErrRegister, bound |-> hotkeys.bound]
                    ELSE [res |-> "ok",
                          bound |-> hotkeys.bound \cup {ParseShortcut(new)}]

\* What the TauriPlugin arm of update_shortcut returns and leaves
\* registered (shortcuts.rs:369-379): unregister_all, parse, register, `?`
\* on each.
TauriUpdate(new, unregOk, regOk) ==
    IF ~hotkeys.plugin
      THEN [res |-> Panicked, bound |-> hotkeys.bound]
      ELSE IF ~unregOk
             THEN [res |-> ErrUnregister, bound |-> hotkeys.bound]
             ELSE IF ParseShortcut(new) = NoParse
                    THEN [res |-> ErrInvalidShortcut, bound |-> {}]
                    ELSE IF ~regOk
                           THEN [res |-> ErrRegister, bound |-> {}]
                           ELSE [res |-> "ok",
                                 bound |-> {ParseShortcut(new)}]

\* update_shortcut (shortcuts.rs:365-385), called by save_settings when
\* the shortcut changed (commands.rs:118-124): detect the backend again;
\* under TauriPlugin replace the registration and return Ok(false),
\* otherwise return Ok(true).
UpdateShortcut(new, probe, unregOk, regOk) ==
    /\ backend # Unset
    /\ detect' = [detect EXCEPT
                    !.probe = probe,
                    !.result = DetectBackend(detect.session, detect.wayland,
                                             probe)]
    /\ IF detect'.result = TauriPlugin
         THEN LET out == TauriUpdate(new, unregOk, regOk)
              IN  /\ hotkeys' = [hotkeys EXCEPT !.bound = out.bound]
                  /\ cmd' = Cmd("update", 0, TauriPlugin, new, out.res,
                                FALSE, {})
         ELSE /\ cmd' = Cmd("update", 0, detect'.result, new, "ok", TRUE, {})
              /\ UNCHANGED hotkeys
    /\ UNCHANGED <<shared, tasks, nextId, txCalls, clipWrites, log, ssPc>>
    /\ UNCHANGED <<backend, portalShortcut, portal, ipc, cli, lk>>

\* The plugin's handler on a press of a registered chord
\* (shortcuts.rs:296-305): spawn toggle_recording.
HotkeyPressed(k) ==
    /\ k \in hotkeys.bound
    /\ tasks = EmptyBag
    /\ tasks' = tasks (+) SetToBag({Task("t_read", NoHandle)})
    /\ UNCHANGED <<shared, nextId, txCalls, clipWrites, log, ssPc>>
    /\ UNCHANGED <<backend, detect, portalShortcut, portal, ipc, cli>>
    /\ UNCHANGED cmdVars

\* The chords a press can be of.
Chords == {ParseShortcut(spec) : spec \in ShortcutSpecs} \ {NoParse}

\* The commands of the settings window served one after the other from
\* startup on, beside the portal setup task up to its subscription; the
\* toggle a hotkey press spawns is not run here.
NextCmd ==
    \/ \E s \in SessionTypes : \E w \in BOOLEAN : \E p \in BOOLEAN :
          SetupShortcuts(s, w, p)
    \/ \E entry \in DconfEntries : PortalDconf(entry)
    \/ \E ok \in BOOLEAN : PortalSession(ok)
    \/ \E b \in BindResults : PortalBind(b)
    \/ \E ok \in BOOLEAN : PortalSubscribe(ok)
    \/ \E v \in PortalVersions : \E res \in ConfigureResults :
          ConfigureShortcut(v, res)
    \/ \E p \in BOOLEAN : \E v \in PortalVersions : GetBackendInfo(p, v)
    \/ \E new \in ShortcutSpecs : \E p \in BOOLEAN :
          \E u \in BOOLEAN : \E g \in BOOLEAN : UpdateShortcut(new, p, u, g)
    \/ \E k \in Chords : HotkeyPressed(k)

SpecCmd == InitCmd /\ [][NextCmd]_vars

\* A session from startup on, the portal delivering activations one at a
\* time and every collaborator of the state machine succeeding.
NextPortal ==
    \/ \E s \in SessionTypes : \E w \in BOOLEAN : \E p \in BOOLEAN :
          SetupShortcuts(s, w, p)
    \/ \E entry \in DconfEntries : PortalDconf(entry)
    \/ \E ok \in BOOLEAN : PortalSession(ok)
    \/ \E b \in BindResults : PortalBind(b)
    \/ \E ok \in BOOLEAN : PortalSubscribe(ok)
    \/ \E item \in StreamItems : PortalNext(item)
    \/ PortalEvent
    \/ TaskStepSeq

SpecPortal == InitSeq /\ [][NextPortal]_vars

(***************************************************************************)
(* The mutexes of AppState.  Every operation is the sequence of lock and   *)
(* unlock instructions of its longest path: a MutexGuard bound by `let`    *)
(* is released at the end of its block, a temporary guard at the end of    *)
(* its statement, the guard in the scrutinee of an `if let` at the end of  *)
(* the `if let`.  An early return through `?` drops the guards held.       *)
(***************************************************************************)
Acq(l) == <<"acq", l>>
Rel(l) == <<"rel", l>>

\* update_tray (tray.rs:242-272): the menu item is set under its lock.
UpdateTrayLocks == <<Acq("record_menu_item"), Rel("record_menu_item")>>

\* toggle_recording (tray.rs:117): the read of the state.
ToggleReadLocks == <<Acq("state"), Rel("state")>>

\* toggle_recording reading Idle, then start_recording_sync
\* (tray.rs:141-173): the settings are read with the credential cache
\* locked (tray.rs:144-159).
ToggleStartLocks ==
    ToggleReadLocks
      \o <<Acq("api_config"), Acq("settings"), Rel("settings"),
           Rel("api_config"),
           Acq("recorder"), Rel("recorder"), Acq("state"), Rel("state")>>
      \o UpdateTrayLocks

\* toggle_recording reading Recording, then stop_and_transcribe
\* (tray.rs:175-240).
ToggleStopLocks ==
    ToggleReadLocks
      \o <<Acq("state"), Rel("state")>> \o UpdateTrayLocks
      \o <<Acq("recorder"), Rel("recorder"),
           Acq("api_config"), Rel("api_config"),
           Acq("state"), Rel("state")>>
      \o UpdateTrayLocks

\* get_status (commands.rs:24-40): the guard of api_config is a temporary
\* of the first operand of `||` and lives to the end of the statement, so
\* the settings are read with it held (commands.rs:28-30).
GetStatusLocks ==
    <<Acq("state"), Rel("state"),
      Acq("api_config"), Acq("settings"), Rel("settings"), Rel("api_config")>>

\* get_settings (commands.rs:48-54).
GetSettingsLocks == <<Acq("settings"), Rel("settings")>>

\* save_settings clearing the credential cache inside the block that
\* holds the settings.
SaveSettingsLocksNested ==
    <<Acq("settings"), Rel("settings"),
      Acq("settings"), Acq("api_config"), Rel("api_config"), Rel("settings")>>

\* save_settings (commands.rs:92-127): two blocks under the settings lock,
\* then the credential cache is cleared under its own.
SaveSettingsLocks ==
    <<Acq("settings"), Rel("settings"), Acq("settings"), Rel("settings"),
      Acq("api_config"), Rel("api_config")>>

\* setup_portal_shortcuts (shortcuts.rs:181, 205): the two writes of
\* portal_shortcut.
PortalSetupLocks ==
    <<Acq("portal_shortcut"), Rel("portal_shortcut"),
      Acq("portal_shortcut"), Rel("portal_shortcut")>>

Program(op) ==
    CASE op = "toggle_start" -> ToggleStartLocks
      [] op = "toggle_stop" -> ToggleStopLocks
      [] op = "get_status" -> GetStatusLocks
      [] op = "get_settings" -> GetSettingsLocks
      [] op = "save_settings" -> SaveSettingsLocks
      [] op = "portal_setup" -> PortalSetupLocks

\* The instruction operation op is at, and the locks it holds.
NextIns(op) == Program(op)[lk.pc[op] + 1]
Holding(op) == {l \in Locks : lk.held[l] = op}

\* Operation op executes its next instruction: Mutex::lock returns once
\* the mutex is free; dropping the guard frees it.  After its last
\* instruction the operation may be invoked again.
LkStep(op) ==
    LET ins == NextIns(op)
        done == lk.pc[op] + 1 = Len(Program(op))
    IN  /\ ins[1] = "acq" => lk.held[ins[2]] = Free
        /\ lk' = [held |-> [lk.held EXCEPT
                               ![ins[2]] = IF ins[1] = "acq" THEN op ELSE Free],
                  pc |-> [lk.pc EXCEPT
                             ![op] = IF done THEN 0 ELSE lk.pc[op] + 1]]
        /\ UNCHANGED <<shared, tasks, nextId, txCalls, clipWrites, log, ssPc>>
        /\ UNCHANGED <<backend, detect, portalShortcut, portal, ipc, cli,
                       hotkeys, cmd>>

\* Operation op returns early through `?` (tray.rs:153-155, 186-200;
\* commands.rs:110): its guards are dropped.
LkReturn(op) ==
    /\ lk.pc[op] > 0
    /\ lk' = [held |-> [l \in Locks |->
                           IF lk.held[l] = op THEN Free ELSE lk.held[l]],
              pc |-> [lk.pc EXCEPT ![op] = 0]]
    /\ UNCHANGED <<shared, tasks, nextId, txCalls, clipWrites, log, ssPc>>
    /\ UNCHANGED <<backend, detect, portalShortcut, portal, ipc, cli,
                   hotkeys, cmd>>

\* The operations running concurrently, each invoked again and again.
NextLocks ==
    \/ \E op \in Ops : LkStep(op)
    \/ \E op \in Ops : LkReturn(op)

SpecLocks == InitCmd /\ [][NextLocks]_vars

(***************************************************************************)
(* The IPC fallback (shortcuts.rs:422-488, main.rs:6-13): the listener     *)
(* thread of the running instance and a `whis-desktop --toggle` process.   *)
(* Bytes are sequences of one-character strings.  What a client sent, and  *)
(* what bind, accept, read, connect and write return, are inputs.          *)
(***************************************************************************)

\* The listener's read buffer (shortcuts.rs:466).
BufSize == 64

\* The command the listener compares with (shortcuts.rs:469) and the
\* sender writes (shortcuts.rs:430).
Toggle == <<"t", "o", "g", "g", "l", "e">>

\* Characters str::trim removes (White_Space), as far as they occur here.
Whitespace == {" ", "\n", "\t"}

\* n spaces.
Pad(n) == [i \in 1..n |-> " "]

\* What a client has written when the listener reads: the command bare,
\* with surrounding whitespace, cut short, extended, in another case, with
\* whitespace inside, nothing, another word, and two payloads longer than
\* the buffer.
Payloads ==
    {Toggle,
     Toggle \o <<"\n">>,
     <<" ", "\t">> \o Toggle \o <<" ", "\n">>,
     <<"t", "o", "g">>,
     Toggle \o <<"x">>,
     <<"T">> \o Tail(Toggle),
     <<"t", "o", "g", " ", "g", "l", "e">>,
     <<>>,
     <<"s", "t", "o", "p">>,
     Toggle \o Pad(BufSize - Len(Toggle)) \o <<"x">>,
     Pad(BufSize) \o Toggle}

\* str::trim (shortcuts.rs:469): drop leading and trailing whitespace.
RECURSIVE TrimStart(_)
TrimStart(s) ==
    IF s # <<>> /\ Head(s) \in Whitespace THEN TrimStart(Tail(s)) ELSE s
RECURSIVE TrimEnd(_)
TrimEnd(s) ==
    IF s # <<>> /\ s[Len(s)] \in Whitespace
      THEN TrimEnd(SubSeq(s, 1, Len(s) - 1))
      ELSE s
Trim(s) == TrimEnd(TrimStart(s))

\* The listener's messages (shortcuts.rs:456, 479); a read error is
\* dropped without a message (shortcuts.rs:467).
ErrIpcSocket == "Failed to create IPC socket"
ErrIpcConnection == "IPC connection error"
ErrIpcRead == "read error"

\* start_ipc_listener (shortcuts.rs:443-449, lib.rs:24): remove the old
\* socket and spawn the listener thread.
StartIpcListener ==
    /\ ipc.pc = "off"
    /\ ipc' = [ipc EXCEPT !.pc = "bind"]
    /\ UNCHANGED <<shared, tasks, nextId, txCalls, clipWrites, log, ssPc>>
    /\ UNCHANGED <<backend, detect, portalShortcut, portal, cli>>
    /\ UNCHANGED cmdVars

\* The listener thread entering the accept loop although the bind failed.
IpcBindIgnoresFailure(ok) ==
    /\ ipc.pc = "bind"
    /\ ipc' = IF ok
                THEN [ipc EXCEPT !.pc = "accept", !.bind = "ok"]
                ELSE [ipc EXCEPT !.pc = "accept", !.bind = "failed",
                                 !.err = ErrIpcSocket]
    /\ UNCHANGED <<shared, tasks, nextId, txCalls, clipWrites, log, ssPc>>
    /\ UNCHANGED <<backend, detect, portalShortcut, portal, cli>>
    /\ UNCHANGED cmdVars

\* The listener thread: UnixListener::bind; on Err the thread returns
\* (shortcuts.rs:453-459).
IpcBind(ok) ==
    /\ ipc.pc = "bind"
    /\ ipc' = IF ok
                THEN [ipc EXCEPT !.pc = "accept", !.bind = "ok"]
                ELSE [ipc EXCEPT !.pc = "dead", !.bind = "failed",
                                 !.err = ErrIpcSocket]
    /\ UNCHANGED <<shared, tasks, nextId, txCalls, clipWrites, log, ssPc>>
    /\ UNCHANGED <<backend, detect, portalShortcut, portal, cli>>
    /\ UNCHANGED cmdVars

\* The listener thread leaving the loop on an accept error.
IpcAcceptErrBreaks ==
    /\ ipc.pc = "accept"
    /\ ipc' = [ipc EXCEPT !.pc = "dead", !.err = ErrIpcConnection]
    /\ UNCHANGED <<shared, tasks, nextId, txCalls, clipWrites, log, ssPc>>
    /\ UNCHANGED <<backend, detect, portalShortcut, portal, cli>>
    /\ UNCHANGED cmdVars

\* listener.incoming() yields Err: log it and go on (shortcuts.rs:479).
IpcAcceptErr ==
    /\ ipc.pc = "accept"
    /\ ipc' = [ipc EXCEPT !.err = ErrIpcConnection]
    /\ UNCHANGED <<shared, tasks, nextId, txCalls, clipWrites, log, ssPc>>
    /\ UNCHANGED <<backend, detect, portalShortcut, portal, cli>>
    /\ UNCHANGED cmdVars

\* listener.incoming() yields a connection on which the client has
\* written payload (shortcuts.rs:463-465).  Connections arrive while the
\* toggle they may ask for is within the bound on tasks in flight.
IpcAccept(payload) ==
    /\ ipc.pc = "accept"
    /\ BagCardinality(tasks) < MaxTasks
    /\ ipc' = [ipc EXCEPT !.pc = "read", !.conn = payload]
    /\ UNCHANGED <<shared, tasks, nextId, txCalls, clipWrites, log, ssPc>>
    /\ UNCHANGED <<backend, detect, portalShortcut, portal, cli>>
    /\ UNCHANGED cmdVars

\* What one read into the buffer can return for the bytes c: all of them
\* up to the size of the buffer, or a short read of the first byte.
Min(a, b) == IF a < b THEN a ELSE b
ReadSizes(c) == {Min(BufSize, Len(c))} \cup (IF Len(c) > 1 THEN {1} ELSE {})

\* stream.read(&mut buf) (shortcuts.rs:466-468): Ok(n) keeps the first n
\* bytes; Err skips the connection.
IpcRead(ok, n) ==
    /\ ipc.pc = "read"
    /\ n \in ReadSizes(ipc.conn)
    /\ ipc' = IF ok
                THEN [ipc EXCEPT !.pc = "cmd", !.conn = <<>>,
                                 !.buf = SubSeq(ipc.conn, 1, n)]
                ELSE [ipc EXCEPT !.pc = "accept", !.conn = <<>>,
                                 !.err = ErrIpcRead]
    /\ UNCHANGED <<shared, tasks, nextId, txCalls, clipWrites, log, ssPc>>
    /\ UNCHANGED <<backend, detect, portalShortcut, portal, cli>>
    /\ UNCHANGED cmdVars

\* The listener comparing the bytes read without trimming them.
IpcCommandNoTrim ==
    /\ ipc.pc = "cmd"
    /\ tasks' = IF ipc.buf = Toggle
                  THEN tasks (+) SetToBag({Task("t_read", NoHandle)})
                  ELSE tasks
    /\ ipc' = [ipc EXCEPT !.pc = "accept", !.buf = <<>>]
    /\ UNCHANGED <<shared, nextId, txCalls, clipWrites, log, ssPc>>
    /\ UNCHANGED <<backend, detect, portalShortcut, portal, cli>>
    /\ UNCHANGED cmdVars

\* The listener: trim, compare with "toggle", spawn toggle_recording on
\* the async runtime and take the next connection (shortcuts.rs:468-477).
IpcCommand ==
    /\ ipc.pc = "cmd"
    /\ tasks' = IF Trim(ipc.buf) = Toggle
                  THEN tasks (+) SetToBag({Task("t_read", NoHandle)})
                  ELSE tasks
    /\ ipc' = [ipc EXCEPT !.pc = "accept", !.buf = <<>>]
    /\ UNCHANGED <<shared, nextId, txCalls, clipWrites, log, ssPc>>
    /\ UNCHANGED <<backend, detect, portalShortcut, portal, cli>>
    /\ UNCHANGED cmdVars

\* A connection accepted and not yet handled may still spawn a toggle.
IpcPending == IF ipc.pc \in {"read", "cmd"} THEN 1 ELSE 0

\* A tray click or menu item (tray.rs:51-76) while the IPC listener runs.
TrayToggle ==
    /\ BagCardinality(tasks) + IpcPending < MaxTasks
    /\ SpawnToggle

\* The sender's messages (shortcuts.rs:435, main.rs:9).
ErrCliConnect == "Could not connect to running instance"
ErrCliWrite == "Failed to toggle"

\* main with --toggle or -t (main.rs:6-8): a new process each time.
CliStart ==
    /\ cli.pc \in {"off", "exit0", "exit1"}
    /\ cli' = [pc |-> "connect", connects |-> 0, err |-> NoLog]
    /\ UNCHANGED <<shared, tasks, nextId, txCalls, clipWrites, log, ssPc>>
    /\ UNCHANGED <<backend, detect, portalShortcut, portal, ipc>>
    /\ UNCHANGED cmdVars

\* send_toggle_command trying the connection once more before giving up.
CliConnectRetries(ok) ==
    /\ cli.pc = "connect"
    /\ ok => ipc.bind = "ok"
    /\ cli' = IF ok
                THEN [cli EXCEPT !.pc = "write", !.connects = @ + 1]
                ELSE IF cli.connects = 0
                       THEN [cli EXCEPT !.connects = @ + 1]
                       ELSE [cli EXCEPT !.pc = "exit1", !.connects = @ + 1,
                                        !.err = ErrCliConnect]
    /\ UNCHANGED <<shared, tasks, nextId, txCalls, clipWrites, log, ssPc>>
    /\ UNCHANGED <<backend, detect, portalShortcut, portal, ipc>>
    /\ UNCHANGED cmdVars

\* send_toggle_command: UnixStream::connect (shortcuts.rs:428, 434-438);
\* it can succeed only on a bound socket.  On Err main exits with 1
\* (main.rs:8-11).
CliConnect(ok) ==
    /\ cli.pc = "connect"
    /\ ok => ipc.bind = "ok"
    /\ cli' = IF ok
                THEN [cli EXCEPT !.pc = "write", !.connects = @ + 1]
                ELSE [cli EXCEPT !.pc = "exit1", !.connects = @ + 1,
                                 !.err = ErrCliConnect]
    /\ UNCHANGED <<shared, tasks, nextId, txCalls, clipWrites, log, ssPc>>
    /\ UNCHANGED <<backend, detect, portalShortcut, portal, ipc>>
    /\ UNCHANGED cmdVars

\* send_toggle_command: write_all, `?` (shortcuts.rs:430-432); on Err main
\* exits with 1, otherwise it returns and the exit code is 0 (main.rs:8-12).
CliWrite(ok) ==
    /\ cli.pc = "write"
    /\ cli' = IF ok
                THEN [cli EXCEPT !.pc = "exit0"]
                ELSE [cli EXCEPT !.pc = "exit1", !.err = ErrCliWrite]
    /\ UNCHANGED <<shared, tasks, nextId, txCalls, clipWrites, log, ssPc>>
    /\ UNCHANGED <<backend, detect, portalShortcut, portal, ipc>>
    /\ UNCHANGED cmdVars

\* The running instance with its tray and IPC listener: the credential is
\* in the settings, the audio device can refuse a start and every other
\* collaborator of the state machine succeeds.
InitIpc == Init /\ settingsKey # NoKey /\ envKey = NoKey

\* What clients send in NextIpc: the command as the sender writes it, the
\* command with a newline, and another word.
ShortPayloads == {Toggle, Toggle \o <<"\n">>, <<"s", "t", "o", "p">>}

NextIpc ==
    \/ StartIpcListener
    \/ \E ok \in BOOLEAN : IpcBind(ok)
    \/ IpcAcceptErr
    \/ \E payload \in ShortPayloads : IpcAccept(payload)
    \/ \E ok \in BOOLEAN : \E n \in 0..BufSize : IpcRead(ok, n)
    \/ IpcCommand
    \/ TrayToggle
    \/ \E r \in At("s_acquire") : StartAcquire(r, FALSE)
    \/ TaskStepSeq

SpecIpc == InitIpc /\ [][NextIpc]_vars

\* --toggle processes coming and going against the running instance, whose
\* listener takes connections with any of the payloads, one at a time when
\* no toggle is in flight.
NextCli ==
    \/ StartIpcListener
    \/ \E ok \in BOOLEAN : IpcBind(ok)
    \/ IpcAcceptErr
    \/ \E payload \in Payloads : CanDeliver /\ IpcAccept(payload)
    \/ \E ok \in BOOLEAN : \E n \in 0..BufSize : IpcRead(ok, n)
    \/ IpcCommand
    \/ CliStart
    \/ \E ok \in BOOLEAN : CliConnect(ok)
    \/ \E ok \in BOOLEAN : CliWrite(ok)
    \/ TaskStepSeq

SpecCli == InitIpc /\ [][NextCli]_vars

(***************************************************************************)
(* Properties.                                                             *)
(***************************************************************************)

\* Live AudioRecorders: the one in AppState.recorder and those owned by
\* the local scopes of the tasks in flight.
TasksHolding ==
    LET at == {r \in BagToSet(tasks) : r.hnd # NoHandle}
    IN  BagCardinality([r \in at |-> tasks[r]])
NumHandles == (IF recorder # NoHandle THEN 1 ELSE 0) + TasksHolding

\* This step is a stop_and_transcribe that has written Processing
\* returning to the runtime.
StopReturns == NumInBag(tasks', StopPcs) < NumIn(StopPcs)

\* C1: whenever stop_and_transcribe returns, after it has set the state to
\* Processing, the RecordingState is Idle (whichever step failed).
C1_StopReturnsIdle == [][StopReturns => state' = Idle]_vars

\* C2: every write that changes RecordingState follows one of the edges
\* Idle -> Recording, Recording -> Processing, Processing -> Idle.
CycleEdges == {<<Idle, Recording>>, <<Recording, Processing>>,
               <<Processing, Idle>>}
C2_StrictCycle == [][state' # state => <<state, state'>> \in CycleEdges]_vars

\* C3: at most one stop_and_transcribe execution is in progress at any
\* time.
C3_SingleStop == NumIn(StopPcs) <= 1

\* This step is a toggle_recording reading the state.
ReadStep ==
    CopiesIn(Task("t_read", NoHandle), tasks')
        < CopiesIn(Task("t_read", NoHandle), tasks)

\* C4: a toggle that reads Processing ends there: the state, the recorder
\* slot, the transcription and clipboard counts, the tray and every other
\* task are as before, and the invocation leaves no task behind.
C4_ProcessingToggleNoOp ==
    [][(ReadStep /\ state = Processing) =>
          /\ tasks' = tasks (-) SetToBag({Task("t_read", NoHandle)})
          /\ UNCHANGED <<shared, nextId, txCalls, clipWrites, log, ssPc>>]_vars

\* C4's case: a toggle is about to read while a stop transition is
\* transcribing.
C4_Witness ==
    /\ state = Processing
    /\ NumIn({"t_read"}) = 1
    /\ NumIn({"p_tx_single", "p_tx_chunked"}) = 1

\* C5 (under SpecSeq): a toggle read in Idle leads to Recording; a toggle
\* read in Recording leads to Processing; Processing leads to Idle with
\* exactly one transcription call and one clipboard write made for the
\* recording of the stop task; no recording ever gets a second call or
\* write.
C5_TwoToggles ==
    /\ (NumIn({"s_config"}) = 1) ~> (state = Recording)
    /\ (NumIn({"p_write"}) = 1) ~> (state = Processing)
    /\ (state = Processing) ~>
          (/\ state = Idle
           /\ \E r \in At("p_tray_idle") :
                 txCalls[r.hnd] = 1 /\ clipWrites[r.hnd] = 1)
    /\ [](\A h \in Handles : txCalls[h] <= 1 /\ clipWrites[h] <= 1)

\* C5's case: the second toggle's transition has written Idle after one
\* transcription call and one clipboard write.
C5_Witness ==
    /\ state = Idle
    /\ \E r \in At("p_tray_idle") :
          txCalls[r.hnd] = 1 /\ clipWrites[r.hnd] = 1

\* Positions between storing the handle and writing Recording, and
\* between writing Processing and taking the handle.
HandOffPcs == {"s_state", "p_tray", "p_take"}

\* C6: outside those two hand-off windows the recorder slot holds a handle
\* if and only if the state is Recording.
C6_RecorderIffRecording ==
    NumIn(HandOffPcs) = 0 => (recorder # NoHandle <=> state = Recording)

\* C7: at most one audio handle exists, counting the slot and the local
\* scopes of the running transitions.
C7_OneHandle == NumHandles <= 1

\* This step is the take of stop_and_transcribe finding the slot empty.
TakeFails ==
    /\ recorder = NoHandle
    /\ NumInBag(tasks', {"p_take"}) < NumIn({"p_take"})

\* C8: when the take fails (no other stop transition running), the state
\* ends at Idle and no transcription call or clipboard write occurs.
C8_TakeFailureEndsIdle ==
    [][(TakeFails /\ NumIn(StopPcs) = 1) =>
          (state' = Idle /\ UNCHANGED <<txCalls, clipWrites>>)]_vars

\* This step is start_recording_sync returning the audio error.
AcquireFails ==
    /\ NumInBag(tasks', {"s_acquire"}) < NumIn({"s_acquire"})
    /\ NumInBag(tasks', {"s_store"}) = NumIn({"s_store"})

\* C9: a failed audio start is reported and writes nothing: the state (Idle
\* when no other toggle ran), the recorder slot and the tray are as before.
C9_AcquireFailureKeepsIdle ==
    [][AcquireFails =>
          /\ log' = ErrAudio
          /\ UNCHANGED <<state, recorder, tray>>
          /\ BagCardinality(tasks') < BagCardinality(tasks)]_vars

\* C9's case: the only toggle failed to start audio capture.
C9_Witness ==
    /\ log = ErrAudio
    /\ tasks = EmptyBag
    /\ state = Idle
    /\ recorder = NoHandle
    /\ tray = Idle

\* This step is a transition finding no credential: the config block of
\* start_recording_sync, or the credential read of stop_and_transcribe.
StartCredentialMissing ==
    /\ config = NoKey
    /\ ResolveKey = NoKey
    /\ NumInBag(tasks', {"s_config"}) < NumIn({"s_config"})
StopCredentialMissing ==
    /\ config = NoKey
    /\ NumInBag(tasks', {"p_config"}) < NumIn({"p_config"})

\* C10: a transition that finds no credential ends with the state at Idle
\* and makes no transcription call: a start that still sees Idle, and a
\* stop (the only task in flight) whose cached credential was cleared.
C10_MissingCredentialEndsIdle ==
    [][/\ (StartCredentialMissing /\ state = Idle) =>
             (state' = Idle /\ UNCHANGED txCalls)
       /\ (StopCredentialMissing /\ BagCardinality(tasks) = 1) =>
             (state' = Idle /\ UNCHANGED txCalls)]_vars

\* This step is blocking work of a stop transition: the take of the audio
\* handle, the finalisation of the capture, a transcription call or a
\* clipboard write.
BlockingWork ==
    \/ recorder # NoHandle /\ recorder' = NoHandle
    \/ NumInBag(tasks', {"p_save"}) < NumIn({"p_save"})
    \/ \E h \in Handles : txCalls'[h] > txCalls[h]
    \/ \E h \in Handles : clipWrites'[h] > clipWrites[h]

\* C11 (under SpecSeq, one transition at a time): the take of the audio
\* handle, the finalisation, the transcription call and the clipboard write
\* of a stop transition all happen with Processing already written.
C11_ProcessingBeforeWork ==
    [][BlockingWork => (state = Processing /\ state' = Processing)]_vars

\* C11's case: the stop transition has taken the handle, finalised the
\* capture and transcribed, and is about to write the clipboard.
C11_Witness ==
    /\ state = Processing
    /\ recorder = NoHandle
    /\ \E r \in At("p_clip") : txCalls[r.hnd] = 1 /\ clipWrites[r.hnd] = 0

\* C12: once the toggle that read Recording has returned (its stop task is
\* spawned and nothing else is in flight), the state is Processing.
C12_ReturnedToggleLeftProcessing ==
    (NumIn({"p_write"}) = 1 /\ BagCardinality(tasks) = 1) =>
        state = Processing

\* C13: the backend detect_backend returns is fixed by what it read:
\* Wayland (session type "wayland" or WAYLAND_DISPLAY set) with the probe
\* true gives the portal backend, Wayland with the probe false the CLI
\* fallback, anything else (X11, another session type, none) the native
\* hotkey backend.
C13_BackendSelection ==
    detect.result # Unset =>
        LET isWayland == detect.session = "wayland" \/ detect.wayland
        IN  /\ (isWayland /\ detect.probe) =>
                   detect.result = PortalGlobalShortcuts
            /\ (isWayland /\ ~detect.probe) => detect.result = CLIFallback
            /\ ~isWayland => detect.result = TauriPlugin

\* C13's case: the session type is not "wayland" but WAYLAND_DISPLAY is
\* set and the probe succeeded.
C13_Witness ==
    /\ detect.session = "x11"
    /\ detect.wayland
    /\ detect.probe
    /\ detect.result = PortalGlobalShortcuts
    /\ backend = PortalGlobalShortcuts

\* This step is the dconf lookup, the bind, the handling of one
\* activation of the portal setup task.
DconfStep == portal.pc = "dconf" /\ portal'.pc # "dconf"
BindStep == portal.pc = "bind" /\ portal'.pc # "bind"
EventStep == portal.pc = "event" /\ portal'.pc # "event"

\* C18: the dconf binding, if found, is published first; a bind that
\* fails, is rejected, or succeeds with an empty or missing trigger for
\* toggle-recording leaves the displayed binding as it was; a bind that
\* succeeds with a non-empty trigger replaces it.
C18_DisplayedBindingPrecedence ==
    [][/\ (DconfStep /\ portal'.dconf # NoShortcut) =>
             portalShortcut' = portal'.dconf
       /\ (DconfStep /\ portal'.dconf = NoShortcut) =>
             portalShortcut' = portalShortcut
       /\ (BindStep /\ portal'.bind.res # "ok") =>
             portalShortcut' = portalShortcut
       /\ (BindStep /\ portal'.bind.res = "ok"
              /\ portal'.bind.trig \in {NoShortcut, ""}) =>
             portalShortcut' = portalShortcut
       /\ (BindStep /\ portal'.bind.res = "ok"
              /\ portal'.bind.trig \notin {NoShortcut, ""}) =>
             portalShortcut' = portal'.bind.trig]_vars

\* C18's case: dconf had a binding and the bind succeeded with an empty
\* trigger, so the dconf binding is still the one displayed.
C18_Witness ==
    /\ portal.pc = "subscribe"
    /\ portal.dconf = "Ctrl+Alt+M"
    /\ portal.bind = [res |-> "ok", trig |-> ""]
    /\ portalShortcut = "Ctrl+Alt+M"

\* C19: portal_shortcut holds a binding only if the backend selected at
\* startup is the portal backend.
C19_PortalShortcutOnlyUnderPortal ==
    portalShortcut # NoShortcut => backend = PortalGlobalShortcuts

\* C20: a bind that fails or is rejected takes the task on to the
\* subscription, and whatever the bind gave, an activation of
\* toggle-recording spawns exactly one toggle.
C20_BindFailureNonFatal ==
    [][/\ (BindStep /\ portal'.bind.res # "ok") => portal'.pc = "subscribe"
       /\ (EventStep /\ portal.event = ToggleId) =>
             tasks' = tasks (+) SetToBag({Task("t_read", NoHandle)})]_vars

\* C20's case: the bind was rejected and an activation of toggle-recording
\* has just spawned a toggle.
C20_Witness ==
    /\ portal.bind.res = "response_err"
    /\ portal.pc = "listening"
    /\ NumIn({"t_read"}) = 1

\* b is the command with nothing but whitespace around it.
IsPaddedToggle(b) ==
    \E i \in 0..Len(b) :
        /\ i + Len(Toggle) <= Len(b)
        /\ \A k \in 1..i : b[k] \in Whitespace
        /\ \A k \in 1..Len(Toggle) : b[i + k] = Toggle[k]
        /\ \A k \in (i + Len(Toggle) + 1)..Len(b) : b[k] \in Whitespace

\* This step is the listener reading from the accepted connection, and
\* the listener acting on the bytes it read.
IpcReadStep == ipc.pc = "read" /\ ipc'.pc = "cmd"
IpcCommandStep == ipc.pc = "cmd" /\ ipc'.pc # "cmd"

\* C14: the listener reads at most 64 bytes, the first ones the client
\* wrote; if they are the command with only whitespace around it, exactly
\* one toggle is spawned, otherwise none; either way no error is recorded
\* and the listener is back at accept.
C14_ToggleCommandDispatchedOnce ==
    [][/\ IpcReadStep =>
             /\ Len(ipc'.buf) <= BufSize
             /\ Len(ipc'.buf) <= Len(ipc.conn)
             /\ \A k \in 1..Len(ipc'.buf) : ipc'.buf[k] = ipc.conn[k]
       /\ IpcCommandStep =>
             /\ tasks' = IF IsPaddedToggle(ipc.buf)
                           THEN tasks (+) SetToBag({Task("t_read", NoHandle)})
                           ELSE tasks
             /\ ipc'.pc = "accept"
             /\ ipc'.err = ipc.err
             /\ log' = log]_vars

\* C14's case: a client wrote the command, whitespace up to the size of
\* the buffer and more; the listener has read a full buffer.
C14_Witness ==
    /\ ipc.pc = "cmd"
    /\ Len(ipc.buf) = BufSize
    /\ IsPaddedToggle(ipc.buf)

\* Positions of the listener thread inside its accept loop.
LoopPcs == {"accept", "read", "cmd"}

\* C15: no step takes the listener out of its accept loop; an accept
\* error and a read error take it back to accept; acting on a command
\* takes it back to accept in the same step that spawns the toggle,
\* whatever the toggles in flight are doing.
C15_ListenerSurvivesErrors ==
    [][/\ ipc.pc \in LoopPcs => ipc'.pc \in LoopPcs
       /\ (ipc.pc \in LoopPcs /\ ipc'.err # ipc.err) => ipc'.pc = "accept"
       /\ IpcCommandStep => ipc'.pc = "accept"]_vars

\* C15's case: after a read error the listener has accepted a connection
\* and read the command from it while a transcription is in progress.
C15_Witness ==
    /\ ipc.err = ErrIpcRead
    /\ ipc.pc = "cmd"
    /\ ipc.buf = Toggle
    /\ NumIn({"p_tx_single", "p_tx_chunked"}) = 1

\* C16 as claimed: the --toggle process makes one connection attempt, and
\* it exits with 1 only when that attempt failed.
C16_OnlyConnectFailureExits1 ==
    /\ cli.connects <= 1
    /\ cli.pc = "exit1" => cli.err = ErrCliConnect

\* C16 amended: the --toggle process makes one connection attempt; it
\* exits with 1 when the attempt fails or when writing the command on the
\* connection fails, and with 0 when both succeeded, which takes a bound
\* listener.
C16_ExitCodes ==
    /\ cli.connects <= 1
    /\ cli.pc \in {"write", "exit0", "exit1"} => cli.connects = 1
    /\ cli.pc = "exit1" => cli.err \in {ErrCliConnect, ErrCliWrite}
    /\ cli.pc = "exit0" => (cli.err = NoLog /\ ipc.bind = "ok")
    /\ (cli.pc \in {"exit0", "exit1"} /\ ipc.bind # "ok") =>
          (cli.pc = "exit1" /\ cli.err = ErrCliConnect)

\* C16's case: the connection was made and the write failed.
C16_Witness ==
    /\ cli.pc = "exit1"
    /\ cli.err = ErrCliWrite
    /\ cli.connects = 1

\* C17: after a failed bind the listener thread is gone and never acts
\* again, so it spawns no toggle, while a tray toggle can still be
\* spawned.
C17_BindFailureStopsOnlyListener ==
    /\ [](ipc.bind = "failed" => ipc.pc = "dead")
    /\ [][ipc.pc = "dead" => ipc' = ipc]_vars
    /\ []((ipc.bind = "failed" /\ BagCardinality(tasks) < MaxTasks) =>
             ENABLED TrayToggle)

\* C17's case: the bind failed and tray toggles have started a recording
\* and stopped it; the transcription is in progress.
C17_Witness ==
    /\ ipc.bind = "failed"
    /\ state = Processing
    /\ NumIn({"p_tx_single", "p_tx_chunked"}) = 1

\* C29: whenever no toggle is in flight, the state last pushed to the tray
\* by update_tray is the current RecordingState.
C29_TrayShowsState == tasks = EmptyBag => tray = state

\* The step is the write of Processing, or the take of a handle, by a stop
\* task r.
StaleWriteStep(r) ==
    /\ r.pc = "p_write"
    /\ tasks' = (tasks (-) SetToBag({r})) (+) SetToBag({Task("p_tray", r.hnd)})
StaleTakeStep(r) ==
    /\ r.pc = "p_take"
    /\ recorder # NoHandle
    /\ tasks' = (tasks (-) SetToBag({r})) (+) SetToBag({Task("p_config", recorder)})

\* C28: a stop task writes Processing only on, and takes only the handle
\* of, the recording cycle observed by the toggle that spawned it: when it
\* writes Processing over Recording, and when it takes a handle, the slot
\* holds the handle that was there when its toggle read Recording.
C28_StopConsumesOwnCycle ==
    [][\A r \in BagToSet(tasks) :
          /\ (StaleWriteStep(r) /\ state = Recording) => recorder = r.hnd
          /\ StaleTakeStep(r) => recorder = r.hnd]_vars

\* The portal task is subscribed: it waits for an activation or handles
\* one.
Subscribed == {"listening", "event"}

\* C21: handling an activation of toggle-recording adds exactly one toggle
\* and nothing else, handling an activation of any other id adds none, and
\* either way the task goes back to the stream; no step of the state
\* machine moves the subscribed task, which leaves the loop only when the
\* stream itself ends.
C21_OneTogglePerActivation ==
    [][/\ (EventStep /\ portal.event = ToggleId) =>
             /\ BagCardinality(tasks') = BagCardinality(tasks) + 1
             /\ NumInBag(tasks', {"t_read"}) = NumIn({"t_read"}) + 1
       /\ (EventStep /\ portal.event # ToggleId) => tasks' = tasks
       /\ EventStep => portal'.pc = "listening"
       /\ (portal.pc \in Subscribed /\ ~EventStep /\ tasks' # tasks) =>
             portal' = portal
       /\ (portal.pc \in Subscribed /\ portal'.pc \notin Subscribed) =>
             (portal.pc = "listening" /\ portal'.pc = "ended"
                /\ tasks' = tasks)]_vars

\* C21's case: an earlier activation of toggle-recording has started a
\* recording, and the task has taken an activation of another shortcut
\* from the stream.
C21_Witness ==
    /\ state = Recording
    /\ tasks = EmptyBag
    /\ portal.pc = "event"
    /\ portal.event = "other-shortcut"

\* C22: with a portal version below 2 the command returns the
\* unsupported-version error, has opened neither a session nor the dialog
\* and leaves portal_shortcut as it was; with version 2 it goes on to the
\* portal.
C22_VersionGate ==
    [][\A v \in PortalVersions : \A res \in ConfigureResults :
          /\ (v < 2 /\ ConfigureShortcut(v, res)) =>
                /\ cmd'.res = ErrUnsupported
                /\ cmd'.opened = {}
                /\ portalShortcut' = portalShortcut
          /\ (v >= 2 /\ ConfigureShortcut(v, res)) =>
                /\ cmd'.res # ErrUnsupported
                /\ cmd'.opened = Opened(res)]_vars

\* C22's case: a binding is displayed and the command has just been
\* refused under portal version 1.
C22_Witness ==
    /\ cmd.op = "configure"
    /\ cmd.version = 1
    /\ cmd.res = ErrUnsupported
    /\ portalShortcut = "Ctrl+Shift+R"

\* C25: get_backend_info reports requires_restart false exactly under
\* TauriPlugin and portal_version 0 under every backend but the portal; a
\* successful update_shortcut returns needs_restart false exactly under
\* TauriPlugin.
C25_RestartFlag ==
    /\ cmd.op = "info" =>
          /\ cmd.restart = (cmd.kind \in {PortalGlobalShortcuts, CLIFallback})
          /\ cmd.kind # PortalGlobalShortcuts => cmd.version = 0
    /\ (cmd.op = "update" /\ cmd.res = "ok") =>
          cmd.restart = (cmd.kind \in {PortalGlobalShortcuts, CLIFallback})

\* C25's case: update_shortcut has succeeded under TauriPlugin.
C25_Witness ==
    /\ cmd.op = "update"
    /\ cmd.res = "ok"
    /\ cmd.kind = TauriPlugin
    /\ ~cmd.restart

\* C26: the backend get_backend_info reports, and the one update_shortcut
\* acts on, is the one setup_shortcuts chose at startup.
C26_BackendFixed ==
    cmd.op \in {"info", "update"} => cmd.kind = backend

DisplayName(m) ==
    CASE m = "Control" -> "Ctrl"
      [] m = "Alt" -> "Alt"
      [] m = "Shift" -> "Shift"
      [] m = "Super" -> "Super"
KeyDisplay(key) ==
    CASE key \in {<<"m">>, <<"M">>} -> "M"
      [] key = <<"F", "1">> -> "F1"
      [] key = <<"s", "p", "a", "c", "e">> -> "SPACE"
      [] key = <<"R", "e", "t", "u", "r", "n">> -> "RETURN"
RECURSIVE ModsDisplay(_)
ModsDisplay(mods) ==
    IF mods = <<>>
      THEN ""
      ELSE DisplayName(Head(mods)) \o "+" \o ModsDisplay(Tail(mods))

\* C23: the displayed string is, for each modifier token in turn, its
\* display name and a '+', followed by the key in upper case;
\* <Control><Alt>m gives Ctrl+Alt+M.
C23_ConversionFormat ==
    portal.raw.found =>
        /\ \A mods \in ModSeqs : \A key \in KeyNames :
              portal.raw.raw = Native(mods, key) =>
                  portal.dconf = ModsDisplay(mods) \o KeyDisplay(key)
        /\ portal.raw.raw = <<"<", "C", "o", "n", "t", "r", "o", "l", ">",
                              "<", "A", "l", "t", ">", "m">> =>
              portal.dconf = "Ctrl+Alt+M"

\* C23's case: the dconf value <Shift><Super>space has been converted.
C23_Witness ==
    /\ portal.pc = "session"
    /\ portal.raw = Entry(Native(<<"Shift", "Super">>,
                                 <<"s", "p", "a", "c", "e">>))
    /\ portal.dconf = "Shift+Super+SPACE"

\* The set of elements of a sequence.
Range(q) == {q[i] : i \in DOMAIN q}

\* C24: the conversion loses nothing of the modifier set and only the
\* case of the key: any chord converted to the displayed string has the
\* modifier set of the chord read and the same key up to case, the chord
\* without modifiers included.
C24_ConversionLossless ==
    portal.raw.found =>
        \A mods \in ModSeqs : \A key \in KeyNames :
            portal.raw.raw = Native(mods, key) =>
                \A mods2 \in ModSeqs : \A key2 \in KeyNames :
                    ReadPortalShortcutFromDconf(Entry(Native(mods2, key2)))
                        = portal.dconf =>
                    /\ Range(mods2) = Range(mods)
                    /\ KeyDisplay(key2) = KeyDisplay(key)

\* C24's case: a chord without modifiers has been converted.
C24_Witness ==
    /\ portal.pc = "session"
    /\ portal.raw = Entry(<<"m">>)
    /\ portal.dconf = "M"

\* Operation op is stopped in Mutex::lock on a mutex that is held.
Waiting(op) ==
    /\ lk.pc[op] > 0
    /\ NextIns(op)[1] = "acq"
    /\ lk.held[NextIns(op)[2]] # Free

\* C30: an operation takes a mutex while holding another only as the
\* settings mutex under the credential-cache mutex, never the other way
\* round; and no set of operations is deadlocked, each waiting for a
\* mutex held by an operation of the set.
C30_LockOrder ==
    /\ \A op \in Ops : \A l \in Holding(op) :
          NextIns(op)[1] = "acq" =>
              (l = "api_config" /\ NextIns(op)[2] = "settings")
    /\ \A D \in SUBSET Ops \ {{}} :
          ~ \A op \in D : Waiting(op) /\ lk.held[NextIns(op)[2]] \in D

\* C30's case: the start of a recording holds the credential cache and
\* the settings together while get_status waits for the credential cache
\* and save_settings for the settings.
C30_Witness ==
    /\ Holding("toggle_start") = {"api_config", "settings"}
    /\ Waiting("get_status")
    /\ Waiting("save_settings")

\* C31: an update_shortcut that returns an error under TauriPlugin, the
\* new string not parsing or its registration failing, leaves the
\* registered bindings as they were before the call.
C31_FailedUpdateKeepsBindings ==
    [][\A new \in ShortcutSpecs : \A p \in BOOLEAN :
          \A u \in BOOLEAN : \A g \in BOOLEAN :
              (/\ UpdateShortcut(new, p, u, g)
               /\ cmd'.kind = TauriPlugin
               /\ cmd'.res \in {ErrInvalidShortcut, ErrRegister}) =>
                  hotkeys'.bound = hotkeys.bound]_vars

====
